---- MODULE Spec2Model ----
(***************************************************************************)
(* Model of the Natours authentication controller                          *)
(* (src/controllers/authController.js, and its earlier revision            *)
(* src/unnamed/part_000).                                                  *)
(*                                                                         *)
(* The user store (a Mongoose model), the JWT library, the mailer and the  *)
(* catchAsync wrapper are collaborators.  The store is modelled as the     *)
(* function users; a document loaded by a handler is a snapshot, and save  *)
(* writes the paths the handler modified to the stored record in one       *)
(* store operation.  Handlers that write the store after an await are      *)
(* split at their awaits, so that requests interleave as they do on the    *)
(* event loop.  The store is assumed available: its operations fail only   *)
(* by validation, by a duplicate email or on a record that was deleted.    *)
(*                                                                         *)
(* Time: now counts clock ticks (Date.now()); a JWT's iat and exp are in   *)
(* whole seconds.  The handlers are explored on a clock read at whole      *)
(* seconds (TicksPerSec ticks a second); the token codec alone is explored *)
(* on a finer clock (FineTicksPerSec ticks a second).                      *)
(***************************************************************************)
EXTENDS Integers, FiniteSets, Sequences, TLC

\* ------------------------------------------------------------- bounds
MaxTime == 2          \* the clock stops at this tick
TicksPerSec == 1      \* ticks of Date.now() in one second of a JWT timestamp
FineTicksPerSec == 2  \* the same, where the token codec is explored alone
JwtExpiresIn == 2     \* process.env.JWT_EXPIRES_IN, in seconds
ResetWindow == 1      \* validity of a reset token, in ticks
MaxUsers == 2         \* identifiers the store ever hands out
MaxResets == 2        \* reset tokens ever generated
MaxTokens == 1        \* session tokens the clients keep
MaxInFlight == 2      \* requests in flight at the same time
BusyUsers == 1        \* identifiers handed out while requests overlap

\* the fine clock runs until a token signed in second 0 is a second past its
\* expiry
FineMaxTime == (JwtExpiresIn + 1) * FineTicksPerSec - 1

Procs == 1..MaxInFlight
Emails == {"a@x.io", "b@x.io"}
Passwords == {"pass1234", "pass5678"}
Roles == {"user", "admin"}

VARIABLES
  now,       \* Date.now()
  users,     \* the user store: identifier -> record, or NoUser
  nextId,    \* the next identifier the store hands out
  resets,    \* per generated reset token: what became of it
  tokens,    \* session tokens the clients hold (every one was signed here)
  reqs,      \* the requests in flight: per slot, position and locals
  last,      \* the outcome of the handler invocation that just ended
  load       \* what the clients offer: accounts ever made, requests at once;
             \* and the clock: ticks a second, the tick it stops at

vars == <<now, users, nextId, resets, tokens, reqs, last, load>>

\* ------------------------------------------------------------- values
\* A reset-token string: the random plaintext number n, its sha256 digest,
\* the digest of the digest's hex text, or no value (undefined).
Str(kind, n) == [kind |-> kind, n |-> n]
Undefined == Str("undefined", 0)
Plain(n) == Str("plain", n)

\* crypto.createHash("sha256").update(s).digest("hex"): one-way, injective
\* on the strings of the model, and never equal to its input.
sha256(s) ==
  IF s.kind = "plain" THEN Str("sha256", s.n)
  ELSE IF s.kind = "sha256" THEN Str("sha256x2", s.n)
  ELSE Str("sha256x3", s.n)

\* A stored password: the bcrypt hash of a plaintext, or not loaded / unset.
bcrypt(p) == [alg |-> "bcrypt", of |-> p]
NoPassword == [alg |-> "none", of |-> ""]

NoTime == -1

NoUser == [_id |-> 0, email |-> "", password |-> NoPassword, role |-> "",
           passwordChangedAt |-> NoTime, passwordResetToken |-> Undefined,
           passwordResetExpires |-> NoTime]

Ids == 1..MaxUsers

\* A session token: the payload {id, iat, exp} and whether the signature is
\* the one JWT_SECRET gives.  NoToken is the empty string / undefined.
Token(id, iat, exp, sig) == [id |-> id, iat |-> iat, exp |-> exp, sig |-> sig]
NoToken == Token(0, 0, 0, "none")
Garbage == Token(0, 0, 0, "malformed")

\* Math.floor(Date.now() / 1000)
Seconds(t) == t \div load.ticks

\* ------------------------------------------------------------- token codec
\* jwt.sign({id}, JWT_SECRET, {expiresIn: JWT_EXPIRES_IN}) at time t
signToken(id, t) == Token(id, Seconds(t), Seconds(t) + JwtExpiresIn, "good")

\* Mutant: a token is still good in the second its exp names.
jwtVerify_goodAtExp(token, t) ==
  IF token.sig # "good" THEN "JsonWebTokenError"
  ELSE IF Seconds(t) > token.exp THEN "TokenExpiredError"
  ELSE "ok"

\* jwt.verify(token, JWT_SECRET) at time t: "ok", or the error it throws
jwtVerify(token, t) ==
  IF token.sig # "good" THEN "JsonWebTokenError"
  ELSE IF Seconds(t) >= token.exp THEN "TokenExpiredError"
  ELSE "ok"

\* ------------------------------------------------------------- user model
\* user.correctPassword(candidate, user.password): bcrypt.compare
correctPassword(candidate, hash) == hash = bcrypt(candidate)

\* user.changedPasswordAfter(iat): the password-changed timestamp is later
\* than the token's issued-at time
changedPasswordAfter(user, iat) ==
  /\ user.passwordChangedAt # NoTime
  /\ iat < Seconds(user.passwordChangedAt)

\* user.createPasswordResetToken(): sets the hash and the expiry on the
\* document and returns the plaintext
createPasswordResetToken(doc, n, t) ==
  [doc EXCEPT !.passwordResetToken = sha256(Plain(n)),
              !.passwordResetExpires = t + ResetWindow]

\* User.findOne({email})
findByEmail(email) ==
  {i \in Ids : users[i] # NoUser /\ users[i].email = email}

\* User.findOne({passwordResetToken: h, passwordResetExpires: {$gt: t}})
findByResetToken(h, t) ==
  {i \in Ids : /\ users[i] # NoUser
               /\ users[i].passwordResetToken = h
               /\ users[i].passwordResetExpires > t}

\* A query without .select("+password") does not load the password.
Unselected(u) == [u EXCEPT !.password = NoPassword]

\* save() on a loaded document whose password was modified, with validation:
\* the confirm validator, then the pre-save hooks (hash the password, stamp
\* passwordChangedAt on a document that is not new).
passwordValid(password, passwordConfirm) ==
  /\ password \in Passwords
  /\ passwordConfirm = password

\* ------------------------------------------------------------- outcomes
\* What a handler invocation ended with.  via: "json" (res.status(..).json),
\* "next" (next()), "error" (next(err), also through catchAsync).  status is
\* the response status, or the statusCode the error carries (0: none).
\* token and user are the body's token and data.user (NoUser: no user in
\* the body); reqUser is req.user after the handler.  facts records what
\* held when the handler's checks ran; n is the reset token the invocation
\* was about and uid the user whose document it had loaded (0: none).
\* sent counts the responses the invocation wrote, passed its calls of next
\* (with or without an error, catchAsync's included).
Outcome(op, via, status, error, message) ==
  [op |-> op, via |-> via, status |-> status, error |-> error,
   message |-> message, token |-> NoToken, user |-> NoUser,
   reqUser |-> NoUser, facts |-> {}, n |-> 0, uid |-> 0,
   sent |-> IF via = "json" THEN 1 ELSE 0,
   passed |-> IF via \in {"next", "error"} THEN 1 ELSE 0]

NoOutcome == Outcome("none", "none", 0, "", "")

\* new AppError(message, statusCode) passed to next
AppError(op, message, statusCode) ==
  Outcome(op, "error", statusCode, "AppError", message)

\* an error a collaborator threw, passed to next by catchAsync
Thrown(op, error) == Outcome(op, "error", 0, error, "")

\* The status the central error responder answers with.
globalErrorHandler(o) ==
  IF o.error = "AppError" THEN o.status
  ELSE IF o.error \in {"JsonWebTokenError", "TokenExpiredError"} THEN 401
  ELSE IF o.error \in {"ValidationError", "DuplicateKey"} THEN 400
  ELSE 500

\* createSendToken(user, statusCode, res) at time t
createSendToken(op, user, statusCode, t) ==
  [Outcome(op, "json", statusCode, "", "success")
     EXCEPT !.token = signToken(user._id, t), !.user = user]

\* ------------------------------------------------------------- requests
\* A request in flight keeps, across its awaits, what the rest of its handler
\* reads: the _id (and role) of the document it loaded or of req.user, and
\* the reset token (number, expiry) it set on the document.
Idle == [pc |-> "idle", uid |-> 0, role |-> "", n |-> 0, exp |-> NoTime]

\* A new request takes the lowest free slot.
Free(p) ==
  /\ p <= load.inflight
  /\ reqs[p].pc = "idle"
  /\ \A q \in Procs : q < p => reqs[q].pc # "idle"

\* The client keeps a session token it was sent, while it has room.
\* by: the operation that sent it; at: the clock when the token was signed;
\* chg: the passwordChangedAt recorded by the latest password change of the
\* token's user made while the client held the token.
Keep(held, tok, by) ==
  IF Cardinality(held) < MaxTokens
  THEN held \cup {[tok |-> tok, by |-> by, at |-> now, chg |-> NoTime]}
  ELSE held

\* A password change of user i at time t, seen from the held tokens.
Changed(held, i, t) ==
  {IF h.tok.id = i THEN [h EXCEPT !.chg = t] ELSE h : h \in held}

Ended(o) == last' = o /\ load' = load

TypeOK ==
  /\ now \in 0..load.until
  /\ nextId \in 1..(MaxUsers + 1)
  /\ DOMAIN users = Ids
  /\ DOMAIN resets = 1..MaxResets
  /\ DOMAIN reqs = Procs
  /\ Cardinality(tokens) <= MaxTokens
  /\ \A p \in Procs : p > load.inflight => reqs[p] = Idle

\* The state after start-up, with an empty store.
Start ==
  /\ now = 0
  /\ users = [i \in Ids |-> NoUser]
  /\ nextId = 1
  /\ resets = [n \in 1..MaxResets |-> [st |-> "unused", uses |-> 0]]
  /\ tokens = {}
  /\ reqs = [p \in Procs |-> Idle]
  /\ last = NoOutcome

\* Requests are served one after the other, for MaxUsers accounts.
Init ==
  /\ Start
  /\ load = [accounts |-> MaxUsers, inflight |-> 1,
             ticks |-> TicksPerSec, until |-> MaxTime]

\* Requests overlap, MaxInFlight at a time, for BusyUsers accounts.
InitConc ==
  /\ Start
  /\ load = [accounts |-> BusyUsers, inflight |-> MaxInFlight,
             ticks |-> TicksPerSec, until |-> MaxTime]

\* The token codec alone, on the fine clock.
InitCodec ==
  /\ Start
  /\ load = [accounts |-> MaxUsers, inflight |-> 1,
             ticks |-> FineTicksPerSec, until |-> FineMaxTime]

\* ------------------------------------------------------------- signup
\* Mutant: the pre-save hook stamps passwordChangedAt on a new document too,
\* after the token's second.
signupResult_stampsNew(email, password, passwordConfirm, role) ==
  IF ~passwordValid(password, passwordConfirm)
  THEN Thrown("signup", "ValidationError")
  ELSE IF findByEmail(email) # {}
  THEN Thrown("signup", "DuplicateKey")
  ELSE createSendToken("signup",
         [_id |-> nextId, email |-> email, password |-> bcrypt(password),
          role |-> role, passwordChangedAt |-> now + load.ticks,
          passwordResetToken |-> Undefined, passwordResetExpires |-> NoTime],
         201, now)

\* User.create({name, email, password, passwordConfirm, role}): the outcome,
\* with the document created in the body.
signupResult(email, password, passwordConfirm, role) ==
  IF ~passwordValid(password, passwordConfirm)
  THEN Thrown("signup", "ValidationError")
  ELSE IF findByEmail(email) # {}
  THEN Thrown("signup", "DuplicateKey")
  ELSE createSendToken("signup",
         [_id |-> nextId, email |-> email, password |-> bcrypt(password),
          role |-> role, passwordChangedAt |-> NoTime,
          passwordResetToken |-> Undefined, passwordResetExpires |-> NoTime],
         201, now)

signupWith(email, password, passwordConfirm, role) ==
  LET o == signupResult(email, password, passwordConfirm, role) IN
  /\ nextId <= load.accounts
  /\ Ended(o)
  /\ IF o.via = "json"
     THEN /\ users' = [users EXCEPT ![nextId] = o.user]
          /\ nextId' = nextId + 1
          /\ tokens' = Keep(tokens, o.token, "signup")
     ELSE UNCHANGED <<users, nextId, tokens>>
  /\ UNCHANGED <<now, resets, reqs>>

\* The bodies the clients post: the owner of a@x.io asks for the admin role.
RoleAsked(email) == IF email = "a@x.io" THEN "admin" ELSE "user"

signup ==
  \E email \in Emails, password \in Passwords, passwordConfirm \in Passwords :
    signupWith(email, password, passwordConfirm, RoleAsked(email))

\* the earlier revision: no role in the body, so the schema's default role;
\* the response is built in place
signup_part000 ==
  \E email \in Emails, password \in Passwords, passwordConfirm \in Passwords :
    signupWith(email, password, passwordConfirm, "user")

\* ------------------------------------------------------------- login
\* What held of a login request when it was handled, for the claims:
\* facts: "present" (email and password given), "known" (a user has the
\* email), "correct" (the password is the user's).
loginFacts(email, password) ==
  (IF email # "" /\ password # "" THEN {"present"} ELSE {})
  \cup (IF findByEmail(email) # {} THEN {"known"} ELSE {})
  \cup (IF \E i \in findByEmail(email) :
             users[i].password = bcrypt(password)
        THEN {"correct"} ELSE {})

\* Mutant: an unknown email is answered 404, apart from a wrong password.
loginResult_tellsUnknown(email, password) ==
  IF email = "" \/ password = ""
  THEN AppError("login", "Please, provide email and password", 400)
  ELSE LET found == findByEmail(email) IN
    IF found = {}
    THEN AppError("login", "There is no user with that email", 404)
    ELSE IF ~correctPassword(password,
                             users[CHOOSE i \in found : TRUE].password)
    THEN AppError("login", "Incorrect email or password", 401)
    ELSE createSendToken("login", users[CHOOSE i \in found : TRUE], 200, now)

\* Mutant: line 56 without its return: after next(err) the handler goes on to
\* createSendToken (which throws on a user that is null).
loginResult_noReturn(email, password) ==
  IF email = "" \/ password = ""
  THEN AppError("login", "Please, provide email and password", 400)
  ELSE LET found == findByEmail(email) IN
    IF found = {}
    THEN [AppError("login", "Incorrect email or password", 401)
            EXCEPT !.passed = 2]
    ELSE IF ~correctPassword(password,
                             users[CHOOSE i \in found : TRUE].password)
    THEN [AppError("login", "Incorrect email or password", 401)
            EXCEPT !.sent = 1]
    ELSE createSendToken("login", users[CHOOSE i \in found : TRUE], 200, now)

loginResult(email, password) ==
  IF email = "" \/ password = ""
  THEN AppError("login", "Please, provide email and password", 400)
  ELSE LET found == findByEmail(email) IN
    IF \/ found = {}
       \/ ~correctPassword(password, users[CHOOSE i \in found : TRUE].password)
    THEN AppError("login", "Incorrect email or password", 401)
    ELSE createSendToken("login", users[CHOOSE i \in found : TRUE], 200, now)

\* the earlier revision answers with the token alone
loginResult_part000(email, password) ==
  LET o == loginResult(email, password) IN
  IF o.via = "json" THEN [o EXCEPT !.user = NoUser] ELSE o

LoginEmails == Emails \cup {"", "nobody@x.io"}
LoginPasswords == Passwords \cup {""}

loginEnds(o, email, password) ==
  /\ Ended([o EXCEPT !.facts = loginFacts(email, password)])
  /\ tokens' = IF o.via = "json" THEN Keep(tokens, o.token, "login")
                                  ELSE tokens
  /\ UNCHANGED <<now, users, nextId, resets, reqs>>

login ==
  \E email \in LoginEmails, password \in LoginPasswords :
    loginEnds(loginResult(email, password), email, password)

login_part000 ==
  \E email \in LoginEmails, password \in LoginPasswords :
    loginEnds(loginResult_part000(email, password), email, password)

\* ------------------------------------------------------------- protect
\* An Authorization header is the sequence of the pieces split(" ") gives:
\* << >> is no header, <<"Bearer">> is "Bearer" alone, <<"Bearer", NoToken>>
\* is "Bearer " with nothing after it.
startsWithBearer(hdr) == Len(hdr) >= 2 /\ hdr[1] = "Bearer"

\* Mutant: any scheme is taken for "Bearer ".
bearerToken_anyScheme(hdr) == IF Len(hdr) >= 2 THEN hdr[2] ELSE NoToken

\* lines 71-77: the token, or NoToken (undefined, or the empty string)
bearerToken(hdr) == IF startsWithBearer(hdr) THEN hdr[2] ELSE NoToken

\* What held of a request when protect handled it, for the claims:
\* facts: "bearer" (the header carries a token after "Bearer "), "verified"
\* (signature good and not expired), "exists" (a user has the token's id),
\* "unchanged" (no password change after the token's issued-at time).
protectFacts(hdr) ==
  LET tok == IF Len(hdr) >= 2 THEN hdr[2] ELSE NoToken
      u == IF tok.id \in Ids THEN users[tok.id] ELSE NoUser IN
  (IF Len(hdr) >= 2 /\ hdr[1] = "Bearer" /\ tok # NoToken
   THEN {"bearer"} ELSE {})
  \cup (IF tok.sig = "good" /\ Seconds(now) < tok.exp
        THEN {"verified"} ELSE {})
  \cup (IF u # NoUser THEN {"exists"} ELSE {})
  \cup (IF u # NoUser /\ (u.passwordChangedAt = NoTime
                          \/ Seconds(u.passwordChangedAt) <= tok.iat)
        THEN {"unchanged"} ELSE {})

\* Mutant: a token whose user is gone is answered 404.
protectResult_gone404(hdr) ==
  LET token == bearerToken(hdr) IN
  IF token = NoToken
  THEN AppError("protect",
                "You're not logged in. Please, log in to get access", 401)
  ELSE IF jwtVerify(token, now) # "ok"
  THEN Thrown("protect", jwtVerify(token, now))
  ELSE LET freshUser == Unselected(users[token.id]) IN
    IF users[token.id] = NoUser
    THEN AppError("protect",
           "The user belonging to this token, does no longer exist", 404)
    ELSE IF changedPasswordAfter(freshUser, token.iat)
    THEN AppError("protect",
           "User recently changed password. Please log in again", 401)
    ELSE [Outcome("protect", "next", 0, "", "") EXCEPT !.reqUser = freshUser]

\* Mutant: step 4 (changedPasswordAfter) is left out.
protectResult_noStep4(hdr) ==
  LET token == bearerToken(hdr) IN
  IF token = NoToken
  THEN AppError("protect",
                "You're not logged in. Please, log in to get access", 401)
  ELSE IF jwtVerify(token, now) # "ok"
  THEN Thrown("protect", jwtVerify(token, now))
  ELSE LET freshUser == Unselected(users[token.id]) IN
    IF users[token.id] = NoUser
    THEN AppError("protect",
           "The user belonging to this token, does no longer exist", 401)
    ELSE [Outcome("protect", "next", 0, "", "") EXCEPT !.reqUser = freshUser]

protectResult(hdr) ==
  LET token == bearerToken(hdr) IN
  IF token = NoToken
  THEN AppError("protect",
                "You're not logged in. Please, log in to get access", 401)
  ELSE IF jwtVerify(token, now) # "ok"
  THEN Thrown("protect", jwtVerify(token, now))
  ELSE LET freshUser == Unselected(users[token.id]) IN
    IF users[token.id] = NoUser
    THEN AppError("protect",
           "The user belonging to this token, does no longer exist", 401)
    ELSE IF changedPasswordAfter(freshUser, token.iat)
    THEN AppError("protect",
           "User recently changed password. Please log in again", 401)
    ELSE [Outcome("protect", "next", 0, "", "") EXCEPT !.reqUser = freshUser]

\* The headers a client sends: none, malformed ones, and well-formed ones
\* carrying a token it holds, a token with a forged signature, or junk.
ClientTokens ==
  {h.tok : h \in tokens} \cup {[h.tok EXCEPT !.sig = "forged"] : h \in tokens}
    \cup {Garbage}

Headers ==
  {<< >>, <<"Bearer">>, <<"Bearer", NoToken>>}
    \cup {<<"Bearer", t>> : t \in ClientTokens}
    \cup {<<"Basic", t>> : t \in ClientTokens}
    \cup {<<"Bearer", t, "x">> : t \in ClientTokens}

\* protect runs first on a protected route; when it continues, the request
\* goes on to the role gate or to updatePassword with req.user set.
protect(p) ==
  /\ Free(p)
  /\ \E hdr \in Headers :
       LET o == protectResult(hdr) IN
       /\ Ended([o EXCEPT !.facts = protectFacts(hdr),
                          !.token = bearerToken(hdr)])
       /\ reqs' = [reqs EXCEPT ![p] =
                     IF o.via = "next"
                     THEN [Idle EXCEPT !.pc = "guarded",
                                       !.uid = o.reqUser._id,
                                       !.role = o.reqUser.role]
                     ELSE Idle]
  /\ UNCHANGED <<now, users, nextId, resets, tokens>>

\* ------------------------------------------------------------- restrictTo
\* Mutant: an empty list of roles lets every role through.
restrictToResult_emptyAllowsAll(roles, role) ==
  IF roles # {} /\ role \notin roles
  THEN AppError("restrictTo",
                "You do not have permission to perform this action", 403)
  ELSE Outcome("restrictTo", "next", 0, "", "")

\* the middleware restrictTo(...roles) returns, on a req.user with this role
restrictToResult(roles, role) ==
  IF role \notin roles
  THEN AppError("restrictTo",
                "You do not have permission to perform this action", 403)
  ELSE Outcome("restrictTo", "next", 0, "", "")

\* The gate is mounted behind protect.  facts: "member" (the role of req.user
\* is one of the roles listed); reqUser: the _id and role of req.user once
\* the gate has run.
restrictTo(p) ==
  /\ reqs[p].pc = "guarded"
  /\ \E roles \in SUBSET Roles :
       Ended([restrictToResult(roles, reqs[p].role)
                EXCEPT !.facts = IF reqs[p].role \in roles
                                 THEN {"member"} ELSE {},
                       !.reqUser = [NoUser EXCEPT !._id = reqs[p].uid,
                                                  !.role = reqs[p].role]])
  /\ reqs' = [reqs EXCEPT ![p] = Idle]
  /\ UNCHANGED <<now, users, nextId, resets, tokens>>

\* ------------------------------------------------------------- the store
\* save() of a loaded document writes the paths the handler modified to the
\* stored record, in one store operation.
saveResetFields(i, token, expires) ==
  [users EXCEPT ![i].passwordResetToken = token,
                ![i].passwordResetExpires = expires]

\* Mutant: the hook's stamp lands a second after the save was called.
savePassword_stampsLate(i, password, t) ==
  [users EXCEPT ![i].password = bcrypt(password),
                ![i].passwordChangedAt = t + load.ticks]

\* with the pre-save hooks on a modified password (hash it, stamp
\* passwordChangedAt), at time t
savePassword(i, password, t) ==
  [users EXCEPT ![i].password = bcrypt(password),
                ![i].passwordChangedAt = t]

savePasswordAndResetFields(i, password, t, token, expires) ==
  [users EXCEPT ![i].password = bcrypt(password),
                ![i].passwordChangedAt = t,
                ![i].passwordResetToken = token,
                ![i].passwordResetExpires = expires]

Mark(n, st) == [resets EXCEPT ![n].st = st]

\* ------------------------------------------------------------- forgotPassword
FreshReset == {n \in 1..MaxResets : resets[n].st = "unused"}

\* lines 136-145: look the user up, generate the reset token on the document
forgotPassword_find(p) ==
  /\ Free(p)
  /\ \E email \in Emails \cup {"nobody@x.io"} :
       LET found == findByEmail(email) IN
       IF found = {}
       THEN /\ Ended(AppError("forgotPassword",
                              "There's no user with that address", 404))
            /\ UNCHANGED <<reqs, resets>>
       ELSE /\ FreshReset # {}
            /\ LET n == CHOOSE m \in FreshReset : \A k \in FreshReset : m <= k
                   user == Unselected(users[CHOOSE i \in found : TRUE])
                   doc == createPasswordResetToken(user, n, now) IN
               /\ reqs' = [reqs EXCEPT ![p] =
                    [Idle EXCEPT !.pc = "fp_save", !.uid = doc._id, !.n = n,
                                 !.exp = doc.passwordResetExpires]]
               /\ resets' = Mark(n, "generated")
            /\ Ended(NoOutcome)
  /\ UNCHANGED <<now, users, nextId, tokens>>

\* Mutant: the plaintext handed back is what gets stored.
forgotPassword_write_plain(i, n, exp) == saveResetFields(i, Plain(n), exp)

\* Mutant: a reset token already in the record is left in place.
forgotPassword_write_keepsOld(i, n, exp) ==
  IF users[i].passwordResetToken # Undefined
  THEN users
  ELSE saveResetFields(i, sha256(Plain(n)), exp)

\* what line 146 writes: the fields createPasswordResetToken set
forgotPassword_write(i, n, exp) ==
  saveResetFields(i, sha256(Plain(n)), exp)

\* line 146: await user.save({validateBeforeSave: false})
forgotPassword_save(p) ==
  /\ reqs[p].pc = "fp_save"
  /\ IF users[reqs[p].uid] = NoUser
     THEN /\ Ended([Thrown("forgotPassword", "DocumentNotFoundError")
                      EXCEPT !.n = reqs[p].n])
          /\ reqs' = [reqs EXCEPT ![p] = Idle]
          /\ resets' = Mark(reqs[p].n, "aborted")
          /\ UNCHANGED users
     ELSE /\ users' = forgotPassword_write(reqs[p].uid, reqs[p].n, reqs[p].exp)
          /\ reqs' = [reqs EXCEPT ![p].pc = "fp_send"]
          /\ Ended(NoOutcome)
          /\ UNCHANGED resets
  /\ UNCHANGED <<now, nextId, tokens>>

\* lines 153-163: the mail goes out with the plaintext in the link
forgotPassword_sent(p) ==
  /\ reqs[p].pc = "fp_send"
  /\ Ended([Outcome("forgotPassword", "json", 200, "", "Token sent to email")
              EXCEPT !.n = reqs[p].n, !.uid = reqs[p].uid])
  /\ resets' = Mark(reqs[p].n, "sent")
  /\ reqs' = [reqs EXCEPT ![p] = Idle]
  /\ UNCHANGED <<now, users, nextId, tokens>>

\* line 164: sendEmail threw; the catch block unsets the fields on the
\* document and calls save
forgotPassword_sendFailed(p) ==
  /\ reqs[p].pc = "fp_send"
  /\ reqs' = [reqs EXCEPT ![p].pc = "fp_clear"]
  /\ resets' = Mark(reqs[p].n, "failed")
  /\ Ended(NoOutcome)
  /\ UNCHANGED <<now, users, nextId, tokens>>

\* Mutant: line 166 is missing, the expiry stays.
forgotPassword_unset_tokenOnly(i) ==
  [users EXCEPT ![i].passwordResetToken = Undefined]

\* Mutant: the catch block fails without the compensating save.
forgotPassword_unset_nothing(i) == users

\* what lines 165-167 write
forgotPassword_unset(i) == saveResetFields(i, Undefined, NoTime)

\* lines 165-173: the save lands, then next(new AppError(.., 500))
forgotPassword_clear(p) ==
  /\ reqs[p].pc = "fp_clear"
  /\ IF users[reqs[p].uid] = NoUser
     THEN /\ Ended([Thrown("forgotPassword", "DocumentNotFoundError")
                      EXCEPT !.n = reqs[p].n, !.uid = reqs[p].uid])
          /\ UNCHANGED users
     ELSE /\ users' = forgotPassword_unset(reqs[p].uid)
          /\ Ended([AppError("forgotPassword",
                     "There was an error sending the email. Try again later.",
                     500) EXCEPT !.n = reqs[p].n, !.uid = reqs[p].uid])
  /\ resets' = Mark(reqs[p].n, "cleared")
  /\ reqs' = [reqs EXCEPT ![p] = Idle]
  /\ UNCHANGED <<now, nextId, tokens>>

\* ------------------------------------------------------------- resetPassword
\* The strings a client puts in the path: the plaintext of a generated reset
\* token, a guess, or the stored digest of a generated token.
Generated == {n \in 1..MaxResets : resets[n].st # "unused"}

ResetParams ==
  {Plain(n) : n \in Generated} \cup {Plain(0)}
    \cup {sha256(Plain(n)) : n \in Generated}

\* What held of a path token at resetPassword's lookup, for the claims:
\* facts: "matches" (the digest of the path token is the stored hash of some
\* user), "live" (the stored expiry of that user is later than now).
resetFacts(token) ==
  (IF \E i \in Ids : users[i] # NoUser /\ token.kind = "plain"
                     /\ users[i].passwordResetToken = Str("sha256", token.n)
   THEN {"matches"} ELSE {})
  \cup (IF \E i \in Ids : /\ users[i] # NoUser /\ token.kind = "plain"
                          /\ users[i].passwordResetToken
                               = Str("sha256", token.n)
                          /\ users[i].passwordResetExpires > now
        THEN {"live"} ELSE {})

\* Mutant: the query leaves the expiry out.
resetPassword_lookup_noExpiry(token) ==
  {i \in Ids : /\ users[i] # NoUser
               /\ users[i].passwordResetToken = sha256(token)}

\* lines 179-187: the user the token selects, if any
resetPassword_lookup(token) == findByResetToken(sha256(token), now)

\* lines 178-191
resetPassword_find(p) ==
  /\ Free(p)
  /\ \E token \in ResetParams :
       LET found == resetPassword_lookup(token) IN
       IF found = {}
       THEN /\ Ended([AppError("resetPassword",
                               "Token is invalid or has expired", 400)
                        EXCEPT !.facts = resetFacts(token),
                               !.n = IF token.kind = "plain"
                                     THEN token.n ELSE 0])
            /\ UNCHANGED reqs
       ELSE /\ reqs' = [reqs EXCEPT ![p] =
                 [Idle EXCEPT !.pc = "rp_save", !.n = token.n,
                              !.uid = CHOOSE i \in found : TRUE]]
            /\ Ended([NoOutcome EXCEPT !.op = "resetPassword_find",
                                       !.facts = resetFacts(token),
                                       !.n = token.n])
  /\ UNCHANGED <<now, users, nextId, resets, tokens>>

\* what lines 192-196 write
resetPassword_write(i, password, t) ==
  savePasswordAndResetFields(i, password, t, Undefined, NoTime)

\* lines 192-199: set the password, unset the reset fields, save, log in
resetPassword_save(p) ==
  LET i == reqs[p].uid
      n == reqs[p].n IN
  /\ reqs[p].pc = "rp_save"
  /\ \E password \in Passwords, passwordConfirm \in Passwords :
       IF ~passwordValid(password, passwordConfirm)
       THEN /\ Ended([Thrown("resetPassword", "ValidationError")
                        EXCEPT !.n = n])
            /\ UNCHANGED <<users, resets, tokens>>
       ELSE IF users[i] = NoUser
       THEN /\ Ended([Thrown("resetPassword", "DocumentNotFoundError")
                        EXCEPT !.n = n])
            /\ UNCHANGED <<users, resets, tokens>>
       ELSE /\ users' = resetPassword_write(i, password, now)
            /\ resets' = [resets EXCEPT ![n].uses = @ + 1]
            /\ tokens' = Keep(Changed(tokens, i, now), signToken(i, now),
                              "resetPassword")
            /\ Ended([createSendToken("resetPassword", users'[i], 200, now)
                        EXCEPT !.n = n])
  /\ reqs' = [reqs EXCEPT ![p] = Idle]
  /\ UNCHANGED <<now, nextId>>

\* ------------------------------------------------------------- updatePassword
\* What held of an updatePassword request at its check, for the claims:
\* facts: "exists" (the user of req.user._id is in the store), "correct"
\* (passwordCurrent is that user's stored password).
updateFacts(i, passwordCurrent) ==
  (IF users[i] # NoUser THEN {"exists"} ELSE {})
  \cup (IF users[i] # NoUser /\ users[i].password = bcrypt(passwordCurrent)
        THEN {"correct"} ELSE {})

\* Mutant: the current password is not checked.
updatePassword_verified_unchecked(user, passwordCurrent) == TRUE

\* lines 214-216: the current password posted is the user's
updatePassword_verified(user, passwordCurrent) ==
  correctPassword(passwordCurrent, user.password)

\* lines 210-216, on a request protect let through
updatePassword_find(p) ==
  LET user == users[reqs[p].uid] IN
  /\ reqs[p].pc = "guarded"
  /\ \E passwordCurrent \in Passwords \cup {""} :
       LET facts == updateFacts(reqs[p].uid, passwordCurrent) IN
       IF user = NoUser
       THEN /\ Ended([Thrown("updatePassword", "TypeError")
                        EXCEPT !.uid = reqs[p].uid])
            /\ reqs' = [reqs EXCEPT ![p] = Idle]
       ELSE IF ~updatePassword_verified(user, passwordCurrent)
       THEN /\ Ended([AppError("updatePassword",
                               "You current password is wrong", 401)
                        EXCEPT !.facts = facts, !.uid = reqs[p].uid])
            /\ reqs' = [reqs EXCEPT ![p] = Idle]
       ELSE /\ Ended([NoOutcome EXCEPT !.op = "updatePassword_find",
                                       !.facts = facts,
                                       !.uid = reqs[p].uid])
            /\ reqs' = [reqs EXCEPT ![p].pc = "up_save"]
  /\ UNCHANGED <<now, users, nextId, resets, tokens>>

\* lines 219-223
updatePassword_save(p) ==
  LET i == reqs[p].uid IN
  /\ reqs[p].pc = "up_save"
  /\ \E password \in Passwords, passwordConfirm \in Passwords :
       IF ~passwordValid(password, passwordConfirm)
       THEN /\ Ended(Thrown("updatePassword", "ValidationError"))
            /\ UNCHANGED <<users, tokens>>
       ELSE IF users[i] = NoUser
       THEN /\ Ended(Thrown("updatePassword", "DocumentNotFoundError"))
            /\ UNCHANGED <<users, tokens>>
       ELSE /\ users' = savePassword(i, password, now)
            /\ tokens' = Keep(Changed(tokens, i, now), signToken(i, now),
                              "updatePassword")
            /\ Ended(createSendToken("updatePassword", users'[i], 200, now))
  /\ reqs' = [reqs EXCEPT ![p] = Idle]
  /\ UNCHANGED <<now, nextId, resets>>

\* ------------------------------------------------------------- environment
\* another part of the API deletes a user
deleteUser ==
  /\ \E i \in Ids :
       /\ users[i] # NoUser
       /\ users' = [users EXCEPT ![i] = NoUser]
  /\ Ended(NoOutcome)
  /\ UNCHANGED <<now, nextId, resets, tokens, reqs>>

Tick ==
  /\ now < load.until
  /\ now' = now + 1
  /\ Ended(NoOutcome)
  /\ UNCHANGED <<users, nextId, resets, tokens, reqs>>

\* The outcome of a handler is with Express (the response is written, or the
\* error is with the central error responder) before the next step is taken.
finish ==
  /\ last # NoOutcome
  /\ last' = NoOutcome
  /\ UNCHANGED <<now, users, nextId, resets, tokens, reqs, load>>

\* A step is taken once the outcome of the last one is with Express.
Ready == last = NoOutcome

Next ==
  \/ Ready /\ signup
  \/ Ready /\ signup_part000
  \/ Ready /\ login
  \/ Ready /\ login_part000
  \/ Ready /\ \E p \in Procs : protect(p)
  \/ Ready /\ \E p \in Procs : restrictTo(p)
  \/ Ready /\ \E p \in Procs : forgotPassword_find(p)
  \/ Ready /\ \E p \in Procs : forgotPassword_save(p)
  \/ Ready /\ \E p \in Procs : forgotPassword_sent(p)
  \/ Ready /\ \E p \in Procs : forgotPassword_sendFailed(p)
  \/ Ready /\ \E p \in Procs : forgotPassword_clear(p)
  \/ Ready /\ \E p \in Procs : resetPassword_find(p)
  \/ Ready /\ \E p \in Procs : resetPassword_save(p)
  \/ Ready /\ \E p \in Procs : updatePassword_find(p)
  \/ Ready /\ \E p \in Procs : updatePassword_save(p)
  \/ Ready /\ deleteUser
  \/ Ready /\ Tick
  \/ finish

Spec == Init /\ [][Next]_vars

\* ------------------------------------------------------------- token codec alone
\* signToken(id) for a user identifier, as createSendToken calls it; the
\* client keeps the token
issue ==
  /\ \E id \in Ids :
       LET token == signToken(id, now) IN
       /\ tokens' = Keep(tokens, token, "signToken")
       /\ Ended([Outcome("signToken", "return", 0, "", "")
                   EXCEPT !.token = token, !.uid = id])
  /\ UNCHANGED <<now, users, nextId, resets, reqs>>

\* promisify(jwt.verify)(token, JWT_SECRET), as protect calls it: the payload
\* (uid is decoded.id), or the error thrown
verify ==
  /\ \E token \in ClientTokens :
       LET r == jwtVerify(token, now) IN
       Ended(IF r = "ok"
             THEN [Outcome("jwtVerify", "return", 0, "", "")
                     EXCEPT !.token = token, !.uid = token.id]
             ELSE [Thrown("jwtVerify", r) EXCEPT !.token = token])
  /\ UNCHANGED <<now, users, nextId, resets, tokens, reqs>>

NextCodec ==
  \/ Ready /\ issue
  \/ Ready /\ verify
  \/ Ready /\ Tick
  \/ finish

SpecCodec == InitCodec /\ [][NextCodec]_vars

SpecConc == InitConc /\ [][Next]_vars

\* ============================================================= claims

AllChecks == {"bearer", "verified", "exists", "unchanged"}

\* C1: protect attaches the resolved user to the request and continues
\* without error exactly when the header carries a bearer token, the token
\* verifies, its user exists and the user's password was not changed after
\* the token was issued; on every other path no user is attached and the
\* request goes no further.
C1_ProtectAttachesIffAllChecksPass ==
  last.op = "protect" =>
    /\ (last.via = "next") <=> (last.facts = AllChecks)
    /\ last.via = "next" =>
         /\ last.reqUser # NoUser
         /\ last.reqUser = Unselected(users[last.reqUser._id])
         /\ \E p \in Procs : /\ reqs[p].pc = "guarded"
                             /\ reqs[p].uid = last.reqUser._id
    /\ last.via # "next" =>
         /\ last.via = "error"
         /\ last.reqUser = NoUser

\* C1 witness: protect has let a request through with its user attached.
C1_Witness ==
  /\ last.op = "protect"
  /\ last.via = "next"
  /\ last.reqUser # NoUser
  /\ last.facts = AllChecks

Rejects(tok) ==
  LET o == protectResult(<<"Bearer", tok>>) IN
  o.via = "error" /\ globalErrorHandler(o) = 401

C8_NoPasswordHashInResponse ==
  last.via = "json" => last.user.password = NoPassword

\* C9: login answers an unknown email and a wrong password for a known email
\* alike (401, same message, no token), whatever the state of the store, so
\* also when repeated; it answers 400 when email or password is missing,
\* whatever the store holds; a failed login changes neither the store nor
\* the tokens issued.
LoginFailure == AppError("login", "Incorrect email or password", 401)

C9_Alike ==
  /\ \A email \in LoginEmails \ {""}, password \in LoginPasswords \ {""} :
       ("correct" \notin loginFacts(email, password)) =>
         /\ loginResult(email, password) = LoginFailure
         /\ loginResult_part000(email, password) = LoginFailure
  /\ \A email \in LoginEmails, password \in LoginPasswords :
       (email = "" \/ password = "") =>
         /\ loginResult(email, password).status = 400
         /\ loginResult(email, password).via = "error"
         /\ loginResult_part000(email, password).status = 400
  /\ (last.op = "login" /\ "correct" \notin last.facts) =>
       /\ last.via = "error"
       /\ last.token = NoToken
       /\ "present" \in last.facts => last.status = 401
       /\ "present" \notin last.facts => last.status = 400

C9_LoginEnumerationResistant ==
  /\ []C9_Alike
  /\ [][(last'.op = "login" /\ last'.via = "error")
          => (users' = users /\ tokens' = tokens)]_vars

\* C9 witness: login has refused a wrong password for a known email while
\* the same request with an unknown email is refused too.
C9_Witness ==
  /\ last.op = "login"
  /\ last.facts = {"present", "known"}
  /\ last.status = 401
  /\ loginFacts("nobody@x.io", "pass1234") = {"present"}

\* C5: resetPassword goes on to change a password only when, at its lookup,
\* the digest of the path token is a user's stored hash and that user's
\* stored expiry is later than now; otherwise it fails with 400, writes no
\* user record and issues no session token.
FoundAndLive == {"matches", "live"}

C5_AtLookup ==
  /\ last.op = "resetPassword_find" =>
       /\ last.facts = FoundAndLive
       /\ \E p \in Procs : reqs[p].pc = "rp_save" /\ reqs[p].n = last.n
  /\ (last.op = "resetPassword" /\ last.error = "AppError") =>
       /\ last.facts # FoundAndLive
       /\ last.status = 400
       /\ last.via = "error"
       /\ last.token = NoToken
  /\ (last.op = "resetPassword" /\ last.via = "json") =>
       /\ users[last.user._id].password = last.user.password
       /\ users[last.user._id].passwordResetToken = Undefined

C5_ResetOnlyOnLiveMatch ==
  /\ []C5_AtLookup
  /\ [][(last'.op = "resetPassword" /\ last'.error = "AppError")
          => (users' = users /\ tokens' = tokens /\ reqs' = reqs)]_vars
  /\ [][(\E i \in Ids : users[i] # NoUser /\ users'[i] # NoUser
                        /\ users'[i].password # users[i].password)
          => \/ last'.op = "updatePassword"
             \/ /\ last'.op = "resetPassword"
                /\ \E p \in Procs : reqs[p].pc = "rp_save"]_vars

\* C5 witness: resetPassword has refused, with 400, a token whose hash is
\* stored and whose expiry has passed.
C5_Witness ==
  /\ last.op = "resetPassword"
  /\ last.status = 400
  /\ last.facts = {"matches"}

\* C4: for one generated reset token at most one resetPassword request ever
\* succeeds, also when requests carrying the same token overlap.
C4_ResetTokenSingleUse ==
  \A n \in 1..MaxResets : resets[n].uses <= 1

\* C6: in every stored user record the reset-token hash and the reset-token
\* expiry are both set or both absent.
C6_ResetFieldsTogether ==
  \A i \in Ids :
    users[i] # NoUser =>
      (users[i].passwordResetToken = Undefined
         <=> users[i].passwordResetExpires = NoTime)

\* C6 witness: while two requests are in flight, a record holds a hash and an
\* expiry after an earlier reset token of the same store was consumed.
C6_Witness ==
  /\ \E i \in Ids : /\ users[i] # NoUser
                    /\ users[i].passwordResetToken # Undefined
                    /\ users[i].passwordResetExpires # NoTime
  /\ \E n \in 1..MaxResets : resets[n].uses >= 1
  /\ \A p \in Procs : reqs[p].pc # "idle"

\* C7: when the email send fails, forgotPassword clears both reset fields of
\* the record, fails with 500 and sends no success response (a success
\* response is sent only for a mail that went out, the send is not tried
\* again); from then on no record holds the hash of that request's token, so
\* no later resetPassword lookup finds it.
C7_SendFailureCompensated ==
  /\ \A n \in 1..MaxResets :
       resets[n].st = "cleared" =>
         /\ \A i \in Ids : users[i].passwordResetToken # sha256(Plain(n))
         /\ resetPassword_lookup(Plain(n)) = {}
  /\ (last.op = "forgotPassword" /\ last.n # 0
        /\ resets[last.n].st = "cleared") =>
       /\ last.via = "error"
       /\ globalErrorHandler(last) = 500
       /\ last.error = "AppError" =>
            /\ last.status = 500
            /\ users[last.uid] # NoUser
            /\ users[last.uid].passwordResetToken = Undefined
            /\ users[last.uid].passwordResetExpires = NoTime
       /\ last.error # "AppError" => users[last.uid] = NoUser
  /\ (last.op = "forgotPassword" /\ last.via = "json") =>
       /\ last.status = 200
       /\ resets[last.n].st = "sent"
  /\ \A p \in Procs :
       reqs[p].pc = "fp_clear" => resets[reqs[p].n].st = "failed"

\* C7 witness: forgotPassword has just failed with 500 after a failed send,
\* while another request is in flight on the same store.
C7_Witness ==
  /\ last.op = "forgotPassword"
  /\ last.error = "AppError"
  /\ last.status = 500
  /\ resets[last.n].st = "cleared"
  /\ \E p \in Procs : reqs[p].pc # "idle"

\* C10: no stored user record ever holds a plaintext reset token: the reset
\* field is absent or a sha256 digest, and a generated plaintext is never
\* the value stored.
C10_PlaintextNeverStored ==
  \A i \in Ids :
    /\ users[i].passwordResetToken.kind \in {"undefined", "sha256"}
    /\ \A n \in 0..MaxResets : users[i].passwordResetToken # Plain(n)

\* C10 witness: a mail went out with a plaintext whose digest is stored.
C10_Witness ==
  \E n \in 1..MaxResets, i \in Ids :
    /\ resets[n].st = "sent"
    /\ users[i].passwordResetToken = sha256(Plain(n))

\* C11: the role gate continues exactly when the role of the request's user
\* is one of the allowed roles and fails with 403 for every other role; it
\* runs only on a request protect let through, and it changes neither that
\* request's user nor the store.
C11_AtGate ==
  last.op = "restrictTo" =>
    /\ last.reqUser._id \in Ids
    /\ last.reqUser.role \in Roles
    /\ (last.via = "next") <=> ("member" \in last.facts)
    /\ last.via # "next" =>
         /\ last.via = "error"
         /\ last.error = "AppError"
         /\ last.status = 403
         /\ globalErrorHandler(last) = 403

Validity == JwtExpiresIn * load.ticks

\* C12 as stated: a token signed for an identifier verifies, giving back
\* that identifier, at every time before the time it was signed plus the
\* validity duration.
C12_VerifiesUntilSignedPlusValidity ==
  \A h \in tokens :
    now < h.at + Validity => jwtVerify(h.tok, now) = "ok"

\* C12 amended: a token signed for an identifier carries that identifier and
\* the second it was signed in; it verifies exactly while the current second
\* is before that second plus the validity duration; so it fails at every
\* time from signing time plus validity on, and, once it has failed as
\* expired, it fails at every later time.
C12_AtVerify ==
  /\ \A h \in tokens :
       /\ h.tok.iat = Seconds(h.at)
       /\ (jwtVerify(h.tok, now) = "ok")
            <=> (Seconds(now) < Seconds(h.at) + JwtExpiresIn)
       /\ now >= h.at + Validity => jwtVerify(h.tok, now) = "TokenExpiredError"
  /\ last.op = "signToken" => last.token.id = last.uid
  /\ (last.op = "jwtVerify" /\ last.via = "return") =>
       /\ last.uid = last.token.id
       /\ \E h \in tokens : h.tok = last.token
  /\ (last.op = "jwtVerify" /\ last.via = "error") =>
       globalErrorHandler(last) = 401

C12_VerifiesWithinValiditySeconds ==
  /\ []C12_AtVerify
  /\ [][\A h \in tokens :
          jwtVerify(h.tok, now) # "ok" => jwtVerify(h.tok, now') # "ok"]_vars

\* C12 witness: a token signed late in its second has been refused as
\* expired less than the validity duration after it was signed.
C12_Witness ==
  /\ last.op = "jwtVerify"
  /\ last.error = "TokenExpiredError"
  /\ \E h \in tokens : /\ h.tok = last.token
                        /\ now < h.at + Validity

\* protect lets the holder of session token tok through as the token's user
Accepts(tok) ==
  LET o == protectResult(<<"Bearer", tok>>) IN
  o.via = "next" /\ o.reqUser._id = tok.id

\* C13: a successful signup answers 201 with a session token, and protect
\* accepts that token in every later state in which the token has not
\* expired, its user has not been deleted and has not changed password.
C13_SignupTokenAccepted ==
  /\ (last.op = "signup" /\ last.via = "json") =>
       /\ last.status = 201
       /\ last.token = signToken(last.user._id, now)
       /\ users[last.user._id] = last.user
       /\ Accepts(last.token)
  /\ \A h \in tokens :
       (/\ h.by = "signup"
        /\ jwtVerify(h.tok, now) = "ok"
        /\ users[h.tok.id] # NoUser
        /\ h.chg = NoTime) => Accepts(h.tok)
  /\ (last.op = "protect" /\ last.via = "error") =>
       \A h \in tokens :
         (h.tok = last.token /\ h.by = "signup") =>
           \/ jwtVerify(h.tok, now) # "ok"
           \/ users[h.tok.id] = NoUser
           \/ h.chg # NoTime

\* C13 witness: protect has let through, at a later time, a request that
\* carries the token a signup sent.
C13_Witness ==
  /\ last.op = "protect"
  /\ last.via = "next"
  /\ \E h \in tokens : /\ h.by = "signup"
                        /\ h.tok = last.token
                        /\ last.reqUser._id = h.tok.id
                        /\ now > h.at

PasswordChanges == {"resetPassword", "updatePassword"}

C15_AtCheck ==
  /\ last.op = "updatePassword_find" =>
       /\ last.facts = {"exists", "correct"}
       /\ \E p \in Procs : reqs[p].pc = "up_save" /\ reqs[p].uid = last.uid
  /\ (last.op = "updatePassword" /\ last.error = "AppError") =>
       /\ last.facts = {"exists"}
       /\ last.via = "error"
       /\ last.status = 401
       /\ globalErrorHandler(last) = 401
       /\ last.token = NoToken

C15_WrongCurrentPasswordRefused ==
  /\ []C15_AtCheck
  /\ [][(last'.op = "updatePassword" /\ last'.via = "error")
          => (users' = users /\ tokens' = tokens)]_vars
  /\ [][\A p \in Procs :
          (reqs'[p].pc = "up_save" /\ reqs[p].pc # "up_save") =>
            /\ reqs[p].pc = "guarded"
            /\ reqs'[p].uid = reqs[p].uid
            /\ last'.op = "updatePassword_find"
            /\ last'.uid = reqs[p].uid
            /\ users' = users]_vars
  /\ [][(last'.op = "updatePassword" /\ last'.via = "json") =>
          \E p \in Procs :
            /\ reqs[p].pc = "up_save"
            /\ reqs'[p] = Idle
            /\ last'.user._id = reqs[p].uid
            /\ \A i \in Ids \ {reqs[p].uid} : users'[i] = users[i]]_vars

\* C15 witness: updatePassword has refused a wrong current password with 401
\* for a user who is in the store.
C15_Witness ==
  /\ last.op = "updatePassword"
  /\ last.status = 401
  /\ last.facts = {"exists"}
  /\ users[last.uid] # NoUser

Handlers ==
  {"signup", "login", "protect", "restrictTo", "forgotPassword",
   "resetPassword", "updatePassword"}

\* a request in the middle of a handler, between two of its awaits
Running(r) == r.pc \notin {"idle", "guarded"}

\* C16: every invocation of a handler ends with exactly one outcome: one
\* response written, or one call of next (to continue, for protect and the
\* role gate, or with an error for the central error responder, also when a
\* collaborator throws); never both, and never neither: a step that leaves
\* its handler at an await gives no outcome, and a step that ends its
\* handler gives one.
C16_OneOutcome ==
  /\ last.sent + last.passed <= 1
  /\ (last.op \in Handlers) <=> (last.sent + last.passed = 1)
  /\ last.sent = 1 <=> last.via = "json"
  /\ last.passed = 1 <=> last.via \in {"next", "error"}
  /\ last.via = "next" => last.op \in {"protect", "restrictTo"}
  /\ last.op \in {"protect", "restrictTo"} => last.sent = 0

C17_ClearRemovesOnlyOwnToken ==
  [][\A p \in Procs :
       (reqs[p].pc = "fp_clear" /\ reqs'[p] = Idle) =>
         \A i \in Ids :
           users'[i].passwordResetToken # users[i].passwordResetToken =>
             users[i].passwordResetToken = sha256(Plain(reqs[p].n))]_vars

\* the generated reset tokens resetPassword would take for user i now
ValidFor(i) == {m \in 1..MaxResets : i \in resetPassword_lookup(Plain(m))}

\* C18: at most one reset token per user is valid at any time: when a
\* forgotPassword has persisted its hash and expiry, the record holds that
\* token's hash and no other, so resetPassword turns away with 400 every
\* token generated for that user before, expired or not; a token
\* resetPassword takes is the one the record holds.
C18_OneValid ==
  /\ \A i \in Ids : Cardinality(ValidFor(i)) <= 1
  /\ \A m \in 1..MaxResets : Cardinality(resetPassword_lookup(Plain(m))) <= 1
  /\ last.op = "resetPassword_find" =>
       \E p \in Procs :
         /\ reqs[p].pc = "rp_save"
         /\ reqs[p].n = last.n
         /\ users[reqs[p].uid].passwordResetToken = sha256(Plain(last.n))
         /\ ValidFor(reqs[p].uid) = {last.n}
  /\ (last.op = "resetPassword" /\ last.error = "AppError") =>
       /\ last.status = 400
       /\ last.n \in 1..MaxResets => resetPassword_lookup(Plain(last.n)) = {}

C18_OneValidResetTokenPerUser ==
  /\ []C18_OneValid
  /\ [][\A p \in Procs :
          (reqs[p].pc = "fp_save" /\ reqs'[p].pc = "fp_send") =>
            /\ users'[reqs[p].uid].passwordResetToken
                 = sha256(Plain(reqs[p].n))
            /\ users'[reqs[p].uid].passwordResetExpires = reqs[p].exp
            /\ \A m \in 1..MaxResets \ {reqs[p].n} :
                 users'[reqs[p].uid].passwordResetToken # sha256(Plain(m))]_vars

\* C18 witness: resetPassword has turned away with 400 a token that was
\* mailed, was never used and has not expired, while the record holds the
\* live hash of a token generated later.
C18_Witness ==
  /\ last.op = "resetPassword"
  /\ last.status = 400
  /\ last.n \in 1..MaxResets
  /\ resets[last.n].st = "sent"
  /\ resets[last.n].uses = 0
  /\ now < ResetWindow
  /\ \E i \in Ids, n \in 1..MaxResets :
       /\ n > last.n
       /\ users[i].passwordResetToken = sha256(Plain(n))
       /\ users[i].passwordResetExpires > now
       /\ nextId = 2

====
